---- MODULE Spec2Model ----
(***************************************************************************)
(* Model of api/v1/pod_webhook.go: the PodValidator admission webhook.     *)
(*                                                                         *)
(* One Handle invocation is followed through its collaborator calls        *)
(* (decoder.Decode, Client.Get, Client.List); InjectDecoder may run at any *)
(* moment, concurrently with it, since the Go code takes no lock.          *)
(* The cluster (the NetworkPolicy objects of every namespace) is fixed at  *)
(* the start of a behaviour; the outcome of Client.Get is chosen by the    *)
(* environment when the call is made.                                      *)
(***************************************************************************)
EXTENDS Naturals, Sequences, FiniteSets, TLC

VARIABLES
    decoder,            \* PodValidator.decoder ("nil" or a decoder)
    netpols,            \* cluster state: the NetworkPolicy objects, all namespaces
    pc,                 \* position of the Handle invocation
    req,                \* admission.Request of the invocation
    dec,                \* the value of v.decoder the invocation read (line 65)
    decAtCall,          \* the value v.decoder had when Handle was entered
    pod,                \* pod decoded from the request (line 63/65)
    originalPod,        \* pod fetched from the store (line 73/74)
    networkPolicyList,  \* items returned by Client.List (line 90/94)
    calls,              \* collaborator calls made so far, with their results
    resp                \* admission.Response returned

vars == <<decoder, netpols, pc, req, dec, decAtCall, pod, originalPod,
          networkPolicyList, calls, resp>>

(***************************************************************************)
(* Bounds and sample universes.                                            *)
(***************************************************************************)
MaxPolicies == 2

Namespaces == {"a", "b"}
PodNames == {"web"}
Keys == {"app", "tier"}
SelectorKeys == {"app"}
Values == {"x", "X"}
\* The values a key takes in the sample universe.
ValuesOf(k) == IF k = "app" THEN Values ELSE {"x"}

(***************************************************************************)
(* Go map[string]string: a nil map and a present-but-empty map are         *)
(* different values that hold the same (empty) set of pairs.               *)
(***************************************************************************)
EmptyKV == [k \in {} |-> "x"]
NilMap == [IsNil |-> TRUE, KV |-> EmptyKV]
GoMap(f) == [IsNil |-> FALSE, KV |-> f]
MapsOver(K) ==
    {NilMap} \cup {GoMap(f) : f \in UNION {{g \in [D -> Values] : \A k \in D : g[k] \in ValuesOf(k)} : D \in SUBSET K}}

LabelMaps == MapsOver(Keys)
SelectorMaps == MapsOver(SelectorKeys)

\* The label set of a map as a set of (key,value) pairs.
Pairs(m) == {<<k, m.KV[k]>> : k \in DOMAIN m.KV}


(***************************************************************************)
(* Objects.                                                                *)
(***************************************************************************)
\* &corev1.Pod{} : the zero pod (lines 63, 73).
EmptyPod == [Namespace |-> "", Name |-> "", Labels |-> NilMap]

\* The pod objects a request body can encode; metadata.namespace may be
\* empty or differ from the namespace of the request.
Pods == [Namespace : Namespaces \cup {""}, Name : PodNames, Labels : LabelMaps]

\* req.Object.Raw: bytes that either encode a pod or are malformed.
RawObjects == {[Valid |-> FALSE, Pod |-> EmptyPod]} \cup {[Valid |-> TRUE, Pod |-> p] : p \in Pods}

\* admission.Request: the fields Handle reads.
Requests == [Namespace : Namespaces, Name : PodNames, Object : RawObjects]

NoRequest == [Namespace |-> "", Name |-> "", Object |-> [Valid |-> FALSE, Pod |-> EmptyPod]]

\* networkingv1.NetworkPolicy: its namespace and Spec.PodSelector.MatchLabels.
Policies == [Namespace : Namespaces, MatchLabels : SelectorMaps]

\* The possible contents of the cluster's NetworkPolicy collection.
Stores == UNION {[1..n -> Policies] : n \in 0..MaxPolicies}

\* PodValidator.decoder: nil until one is given (NewPodValidator, InjectDecoder).
NilDecoder == "nil"
Decoders == {NilDecoder, "decoder"}

(***************************************************************************)
(* Errors of the collaborators.                                            *)
(***************************************************************************)
NoErr == ""
ErrDecode == "unable to decode request body"
ErrNotFound == "pods not found"
ErrTimeout == "request timed out"
ErrForbidden == "forbidden"

GetErrors == {ErrNotFound, ErrTimeout, ErrForbidden}
ListErrors == {ErrTimeout, ErrForbidden}

\* Variant: every error of the lookup is taken for not-found.
IsNotFound_AnyError(err) == err # NoErr

\* errors.IsNotFound (line 75).
IsNotFound(err) == err = ErrNotFound

(***************************************************************************)
(* admission.Response and its constructors.                                *)
(***************************************************************************)
StatusOK == 200
StatusBadRequest == 400
StatusInternalServerError == 500

NoResponse == [Allowed |-> FALSE, Code |-> 0, Reason |-> "", Warnings |-> <<>>]

\* admission.Allowed(message) (lines 80, 86, 104, 109).
Allowed(message) == [Allowed |-> TRUE, Code |-> StatusOK, Reason |-> message, Warnings |-> <<>>]

\* Variant: an error response that lets the request through.
Errored_Admits(code, err) == [Allowed |-> TRUE, Code |-> StatusOK, Reason |-> err, Warnings |-> <<>>]

\* admission.Errored(code, err) (lines 68, 77, 96): a response that is not
\* allowed and carries the status code and the error text.
Errored(code, err) == [Allowed |-> FALSE, Code |-> code, Reason |-> err, Warnings |-> <<>>]

\* Variant: the response with a warning rejects the request.
WithWarnings_Denies(r, w) == [r EXCEPT !.Allowed = FALSE, !.Code = 403, !.Warnings = @ \o <<w>>]

\* Response.WithWarnings(w) (line 104).
WithWarnings(r, w) == [r EXCEPT !.Warnings = @ \o <<w>>]

ReasonNewPod == "New pod creation"
ReasonNoChange == "No label changes detected"
ReasonNotReferenced == "Labels are not referenced in any NetworkPolicy"
WarningReferenced == "Pod labels are referenced in a NetworkPolicy"

(***************************************************************************)
(* The decoder collaborator (line 65).                                     *)
(***************************************************************************)
\* The error of decoder.Decode(req, pod): malformed bytes do not decode.
DecodeErr(r) == IF r.Object.Valid THEN NoErr ELSE ErrDecode

\* The pod that decoder.Decode(req, pod) stores in pod when it succeeds.
DecodedPod(r) == r.Object.Pod

(***************************************************************************)
(* The decision logic.                                                     *)
(***************************************************************************)
\* reflect.DeepEqual on two map[string]string (line 84): both nil or both
\* non-nil, and then the same keys with the same values.
DeepEqual(m1, m2) == /\ m1.IsNil = m2.IsNil
                     /\ m1.KV = m2.KV

\* labels.Set(m).AsSelectorPreValidated() (line 113): a nil or empty set
\* yields the selector with no requirement, otherwise one "key = value"
\* requirement per pair.
AsSelectorPreValidated(m) ==
    IF m.IsNil \/ DOMAIN m.KV = {}
    THEN {}
    ELSE {[key |-> k, value |-> m.KV[k]] : k \in DOMAIN m.KV}

\* labels.Set.Has and labels.Set.Get; reading a nil map finds no key.
Has(ls, k) == k \in DOMAIN ls.KV
Get(ls, k) == ls.KV[k]

\* selector.Matches(ls) (line 114): every requirement is met.
Matches(selector, ls) == \A r \in selector : Has(ls, r.key) /\ Get(ls, r.key) = r.value

matchesLabels(podslabels, netPolLabels) ==
    Matches(AsSelectorPreValidated(netPolLabels), podslabels)

\* Variant: the policies are matched against the proposed labels.
SubjectLabels_Proposed(orig, new) == new.Labels

\* The label set handed to matchesLabels (line 101): the original pod's.
SubjectLabels(orig, new) == orig.Labels

\* The loop of lines 100-109, from item i on: the first matching policy
\* ends it with the warning response.
RECURSIVE ScanFrom(_, _, _, _)
ScanFrom(orig, new, items, i) ==
    IF i > Len(items)
    THEN Allowed(ReasonNotReferenced)
    ELSE IF matchesLabels(SubjectLabels(orig, new), items[i].MatchLabels)
         THEN WithWarnings(Allowed(""), WarningReferenced)
         ELSE ScanFrom(orig, new, items, i + 1)

ScanPolicies(orig, new, items) == ScanFrom(orig, new, items, 1)

\* The namespace of the list call (line 92): the decoded pod's.
ListNamespace(r, p) == p.Namespace

\* Client.List with client.InNamespace(ns) (line 94): the policies of ns,
\* those of every namespace when ns is empty.
ListItems(store, ns) == SelectSeq(store, LAMBDA p : ns = "" \/ p.Namespace = ns)

DecodeCall(e) == [op |-> "Decode", Namespace |-> "", Name |-> "", err |-> e]
GetCall(ns, n, e) == [op |-> "Get", Namespace |-> ns, Name |-> n, err |-> e]
ListCall(ns, e) == [op |-> "List", Namespace |-> ns, Name |-> "", err |-> e]

(***************************************************************************)
(* State machine.                                                          *)
(***************************************************************************)
Init ==
    /\ decoder \in Decoders
    /\ netpols \in Stores
    /\ pc = "idle"
    /\ req = NoRequest
    /\ dec = NilDecoder
    /\ decAtCall = NilDecoder
    /\ pod = EmptyPod
    /\ originalPod = EmptyPod
    /\ networkPolicyList = <<>>
    /\ calls = <<>>
    /\ resp = NoResponse

\* Handle is entered with request r (lines 47, 63).
HandleCall(r) ==
    /\ pc = "idle"
    /\ pc' = "called"
    /\ req' = r
    /\ decAtCall' = decoder
    /\ pod' = EmptyPod
    /\ UNCHANGED <<decoder, netpols, dec, originalPod, networkPolicyList, calls, resp>>

\* Lines 65-70: v.decoder is read and asked to decode the request.  A nil
\* decoder makes the call panic.
HandleDecode ==
    /\ pc = "called"
    /\ dec' = decoder
    /\ IF decoder = NilDecoder
       THEN /\ pc' = "panicked"
            /\ UNCHANGED <<pod, calls, resp>>
       ELSE LET e == DecodeErr(req) IN
            /\ calls' = Append(calls, DecodeCall(e))
            /\ IF e # NoErr
               THEN /\ resp' = Errored(StatusBadRequest, e)
                    /\ pc' = "done"
                    /\ pod' = pod
               ELSE /\ pod' = DecodedPod(req)
                    /\ pc' = "decoded"
                    /\ resp' = resp
    /\ UNCHANGED <<decoder, netpols, req, decAtCall, originalPod, networkPolicyList>>

\* Lines 72-87: the original pod is fetched under the request's namespace
\* and name, and its labels are compared with the decoded pod's.
HandleGet ==
    /\ pc = "decoded"
    /\ \E e \in GetErrors \cup {NoErr}, l \in LabelMaps :
         /\ calls' = Append(calls, GetCall(req.Namespace, req.Name, e))
         /\ IF e # NoErr
            THEN /\ l = NilMap
                 /\ originalPod' = originalPod
                 /\ pc' = "done"
                 /\ IF ~IsNotFound(e)
                    THEN resp' = Errored(StatusInternalServerError, e)
                    ELSE resp' = Allowed(ReasonNewPod)
            ELSE /\ originalPod' = [Namespace |-> req.Namespace, Name |-> req.Name, Labels |-> l]
                 /\ IF DeepEqual(l, pod.Labels)
                    THEN /\ resp' = Allowed(ReasonNoChange)
                         /\ pc' = "done"
                    ELSE /\ resp' = resp
                         /\ pc' = "fetched"
    /\ UNCHANGED <<decoder, netpols, req, dec, decAtCall, pod, networkPolicyList>>

\* Lines 89-109: the policies are listed and scanned.
HandleList ==
    /\ pc = "fetched"
    /\ \E e \in ListErrors \cup {NoErr} :
         LET ns == ListNamespace(req, pod) IN
         /\ calls' = Append(calls, ListCall(ns, e))
         /\ pc' = "done"
         /\ IF e # NoErr
            THEN /\ networkPolicyList' = networkPolicyList
                 /\ resp' = Errored(StatusInternalServerError, e)
            ELSE /\ networkPolicyList' = ListItems(netpols, ns)
                 /\ resp' = ScanPolicies(originalPod, pod, networkPolicyList')
    /\ UNCHANGED <<decoder, netpols, req, dec, decAtCall, pod, originalPod>>

\* The invocation is over (it returned or panicked); the next one may start.
HandleReturn ==
    /\ pc \in {"done", "panicked"}
    /\ pc' = "idle"
    /\ req' = NoRequest
    /\ dec' = NilDecoder
    /\ decAtCall' = NilDecoder
    /\ pod' = EmptyPod
    /\ originalPod' = EmptyPod
    /\ networkPolicyList' = <<>>
    /\ calls' = <<>>
    /\ resp' = NoResponse
    /\ UNCHANGED <<decoder, netpols>>

\* InjectDecoder (lines 121-125): a write of v.decoder under no lock, while
\* Handle reads the field at line 65 under none either.  A read that races
\* with the write yields the old or the new value (a torn read of the
\* interface between nil and a decoder behaves as one of the two), which
\* is what placing this step before or after HandleDecode gives.
InjectDecoder(d) ==
    /\ decoder' = d
    /\ UNCHANGED <<netpols, pc, req, dec, decAtCall, pod, originalPod,
                   networkPolicyList, calls, resp>>

Next ==
    \/ \E r \in Requests : HandleCall(r)
    \/ HandleDecode
    \/ HandleGet
    \/ HandleList
    \/ HandleReturn
    \/ \E d \in Decoders : InjectDecoder(d)

Spec == Init /\ [][Next]_vars

TypeOK ==
    /\ decoder \in Decoders
    /\ netpols \in Stores
    /\ pc \in {"idle", "called", "decoded", "fetched", "done", "panicked"}
    /\ req \in Requests \cup {NoRequest}
    /\ pod \in Pods \cup {EmptyPod}
    /\ Len(calls) <= 3

(***************************************************************************)
(* Vocabulary of the properties.  Label sets are compared as sets of       *)
(* pairs, independently of the operators that model the code.              *)
(***************************************************************************)
Returned == pc = "done"

\* A collaborator call failed; not-found is an answer of the store, not a failure.
IsFailure(c) == c.err # NoErr /\ ~(c.op = "Get" /\ c.err = "pods not found")

NoFailure == \A i \in DOMAIN calls : ~IsFailure(calls[i])

\* The store returned the previous pod.
FoundPrevious == \E i \in DOMAIN calls : calls[i].op = "Get" /\ calls[i].err = NoErr

\* The policies were listed.
Listed == \E i \in DOMAIN calls : calls[i].op = "List" /\ calls[i].err = NoErr

LabelsDiffer == Pairs(pod.Labels) # Pairs(originalPod.Labels)

\* Selector sel is satisfied by label set l.
Satisfies(l, sel) == Pairs(sel) \subseteq Pairs(l)

\* The policies of the namespace the previous pod lives in.
PoliciesOfPodNamespace ==
    {netpols[i] : i \in {j \in DOMAIN netpols : netpols[j].Namespace = originalPod.Namespace}}

HasWarning == resp.Warnings # <<>>

(***************************************************************************)
(* C1.  The new-pod verdict is returned only when the lookup of the        *)
(* previous pod reported not-found; a lookup that failed with any other    *)
(* error ends in an error response (500, the error's text), never in an    *)
(* allowed verdict.                                                        *)
(***************************************************************************)
C1_NewPodOnlyOnNotFound ==
    Returned =>
        /\ resp.Reason = "New pod creation" =>
              \E i \in DOMAIN calls : calls[i].op = "Get" /\ calls[i].err = "pods not found"
        /\ \A i \in DOMAIN calls :
              (calls[i].op = "Get" /\ calls[i].err \notin {NoErr, "pods not found"}) =>
                  /\ ~resp.Allowed
                  /\ resp.Code = 500
                  /\ resp.Reason = calls[i].err

C1_Witness ==
    /\ Returned
    /\ Len(calls) = 2
    /\ calls[2].op = "Get"
    /\ calls[2].err = "request timed out"
    /\ ~resp.Allowed

(***************************************************************************)
(* C2.  With a previous pod and no collaborator failure: a warning is      *)
(* returned exactly when the proposed labels differ from the previous ones *)
(* and a policy of the namespace selects the previous labels; differing    *)
(* labels that no policy selects give the plain "not referenced" verdict;  *)
(* labels that do not differ give the plain "no change" verdict.           *)
(***************************************************************************)
C2_DecisionTable ==
    (Returned /\ FoundPrevious /\ NoFailure) =>
        LET referenced == \E p \in PoliciesOfPodNamespace : Satisfies(originalPod.Labels, p.MatchLabels)
        IN  /\ (resp.Allowed /\ HasWarning) <=> (LabelsDiffer /\ referenced)
            /\ (LabelsDiffer /\ ~referenced) =>
                  /\ resp.Allowed
                  /\ ~HasWarning
                  /\ resp.Reason = "Labels are not referenced in any NetworkPolicy"
            /\ ~LabelsDiffer =>
                  /\ resp.Allowed
                  /\ ~HasWarning
                  /\ resp.Reason = "No label changes detected"

(***************************************************************************)
(* C3.  Handle never denies: a response that is not allowed is returned    *)
(* only after a collaborator failure, and a label change of a pod whose    *)
(* previous labels a listed policy selects is allowed, with a warning.     *)
(***************************************************************************)
C3_NeverDenies ==
    Returned =>
        /\ NoFailure => (resp.Allowed /\ resp.Code = 200)
        /\ HasWarning => resp.Allowed
        /\ (Listed /\ \E i \in DOMAIN networkPolicyList :
                          Satisfies(originalPod.Labels, networkPolicyList[i].MatchLabels)) =>
              (resp.Allowed /\ HasWarning)

C3_Witness ==
    /\ Returned
    /\ Listed
    /\ LabelsDiffer
    /\ \E i \in DOMAIN networkPolicyList :
          /\ Pairs(networkPolicyList[i].MatchLabels) # {}
          /\ Satisfies(originalPod.Labels, networkPolicyList[i].MatchLabels)
          /\ ~Satisfies(pod.Labels, networkPolicyList[i].MatchLabels)
    /\ resp.Allowed
    /\ HasWarning

(***************************************************************************)
(* C4.  The verdict of a label change depends on the previous labels and   *)
(* the listed policies only: whatever other label set, differing from the  *)
(* previous one, had been proposed, the comparison would report a change   *)
(* and the scan would return the response this invocation returned.        *)
(***************************************************************************)
C4_VerdictIgnoresProposed ==
    (Returned /\ Listed /\ LabelsDiffer) =>
        \A l \in LabelMaps :
            Pairs(l) # Pairs(originalPod.Labels) =>
                /\ ~DeepEqual(originalPod.Labels, l)
                /\ ScanPolicies(originalPod, [pod EXCEPT !.Labels = l], networkPolicyList) = resp

\* No warning although a listed policy selects the proposed labels.
C4_Witness ==
    /\ Returned
    /\ Listed
    /\ LabelsDiffer
    /\ ~HasWarning
    /\ \E i \in DOMAIN networkPolicyList :
          /\ Pairs(networkPolicyList[i].MatchLabels) # {}
          /\ Satisfies(pod.Labels, networkPolicyList[i].MatchLabels)

(***************************************************************************)
(* C5.  Once the previous pod is fetched, "no change" is reported exactly  *)
(* when the previous and the proposed label sets hold the same pairs,      *)
(* whether a set without pairs is a nil map or an empty map.               *)
(***************************************************************************)
C5_NoChangeIffSamePairs ==
    FoundPrevious =>
        ((Returned /\ Len(calls) = 2 /\ resp.Reason = "No label changes detected")
            <=> ~LabelsDiffer)

(***************************************************************************)
(* C6.  matchesLabels(L, S) holds exactly when every pair of S is a pair   *)
(* of L, and so a policy with an empty selector in the namespace of an     *)
(* existing pod makes every label change of that pod produce a warning.    *)
(***************************************************************************)
C6_MatcherAndEmptySelector ==
    /\ \A l \in LabelMaps, sel \in SelectorMaps :
          matchesLabels(l, sel) <=> Satisfies(l, sel)
    /\ (Returned /\ FoundPrevious /\ NoFailure /\ LabelsDiffer
          /\ \E p \in PoliciesOfPodNamespace : Pairs(p.MatchLabels) = {})
          => (resp.Allowed /\ HasWarning)

(***************************************************************************)
(* C7.  A failed collaborator call is the last call of the invocation and  *)
(* ends it with an error response: not allowed, no warning, status 400     *)
(* for the decoder and 500 for the store, and the error's text.            *)
(***************************************************************************)
C7_FailuresAbort ==
    \A i \in DOMAIN calls :
        IsFailure(calls[i]) =>
            /\ i = Len(calls)
            /\ Returned
            /\ ~resp.Allowed
            /\ ~HasWarning
            /\ resp.Code = (IF calls[i].op = "Decode" THEN 400 ELSE 500)
            /\ resp.Reason = calls[i].err

C7_Witness ==
    /\ Returned
    /\ Len(calls) = 3
    /\ calls[3].op = "List"
    /\ IsFailure(calls[3])
    /\ ~resp.Allowed

(***************************************************************************)
(* C8.  Every response Handle returns carries a reason, and the response   *)
(* with a warning carries both a reason and the warning's text.            *)
(***************************************************************************)
C8_EveryVerdictHasReason ==
    Returned =>
        /\ resp.Reason # ""
        /\ HasWarning => resp.Warnings[1] # ""

(***************************************************************************)
(* C9.  The policies are listed in the namespace the previous pod was      *)
(* looked up in, and a warning is only ever due to a policy of that        *)
(* namespace.                                                              *)
(***************************************************************************)
C9_ListNamespaceIsGetNamespace ==
    /\ \A i, j \in DOMAIN calls :
          (calls[i].op = "Get" /\ calls[j].op = "List") =>
              calls[j].Namespace = calls[i].Namespace
    /\ (Returned /\ HasWarning) =>
          \E p \in PoliciesOfPodNamespace : Satisfies(originalPod.Labels, p.MatchLabels)

(***************************************************************************)
(* C10.  No step of another invocation changes what a Handle invocation    *)
(* reads: the decoder it uses is the one the validator held when it was    *)
(* entered, so it ends as it would have ended run alone (it panics exactly *)
(* when it was entered with a nil decoder).                                *)
(***************************************************************************)
C10_NoInterference ==
    pc \notin {"idle", "called"} =>
        /\ dec = decAtCall
        /\ (pc = "panicked") <=> (decAtCall = "nil")

====
